---- MODULE Spec2Model ----
(***************************************************************************)
(* Model of src/linux_joystick.c (GLFW 3.3 Linux joystick backend): the    *)
(* fixed-size slot table, device discovery (openJoystickDevice), hot-plug  *)
(* processing through inotify (_glfwPollJoystickEvents), the poller        *)
(* (pollJoystickEvents) behind the four platform queries, and the          *)
(* initialize / terminate lifecycle.  The kernel side (the /dev/input      *)
(* directory, the descriptor table, the per-descriptor joydev event queue  *)
(* and the inotify queue) is modelled as the environment.                  *)
(*                                                                         *)
(* Strings are sequences of one-character strings so that snprintf,        *)
(* strcmp and the regular expression are computed character by character.  *)
(*                                                                         *)
(* Two specifications share the actions: Spec explores discovery, hot-plug *)
(* and the lifecycle from every initial directory, with silent drivers;    *)
(* SpecPoll starts from one directory and lets the drivers queue events.   *)
(***************************************************************************)
EXTENDS Integers, Sequences, FiniteSets, TLC

(***************************************************************************)
(* Bounds of the model                                                     *)
(***************************************************************************)
\* Index of the last joystick slot (the slot table has GLFW_JOYSTICK_LAST+1
\* entries).  The library's header sets 15; the model scales the table down.
GLFW_JOYSTICK_LAST == 1
\* Highest descriptor number the process may hold (RLIMIT_NOFILE - 1);
\* descriptors 0..2 are the standard streams.
MaxFd == 7
\* Longest queue of unread driver events on one descriptor.
MaxQueue == 2
\* Longest queue of unread inotify events.
MaxInotify == 2
\* Number of environment steps (plug, unplug, chmod, driver event) in a run.
MaxEnvSteps == 2

(***************************************************************************)
(* Program constants                                                       *)
(***************************************************************************)
\* char path[20]
PathSize == 20
\* (float) e.value / 32767.0f
AxisDivisor == 32767
\* if (version < 0x010000)
MinDriverVersion == 65536
\* <linux/joystick.h> event types, as used by pollJoystickEvents
JS_EVENT_BUTTON == 1
JS_EVENT_AXIS == 2
JS_EVENT_INIT == 128
\* GLFW key/button actions stored in js->buttons
GLFW_RELEASE == 0
GLFW_PRESS == 1

(***************************************************************************)
(* Strings                                                                 *)
(***************************************************************************)
Digits == {"0", "1", "2", "3", "4", "5", "6", "7", "8", "9"}

\* Character code (ASCII) of the characters that occur in the model.
CharCode(c) ==
    CASE c = "/" -> 47
      [] c = "0" -> 48 [] c = "1" -> 49 [] c = "2" -> 50 [] c = "3" -> 51
      [] c = "4" -> 52 [] c = "5" -> 53 [] c = "6" -> 54 [] c = "7" -> 55
      [] c = "8" -> 56 [] c = "9" -> 57
      [] c = "d" -> 100 [] c = "e" -> 101 [] c = "i" -> 105 [] c = "j" -> 106
      [] c = "n" -> 110 [] c = "p" -> 112 [] c = "s" -> 115 [] c = "t" -> 116
      [] c = "u" -> 117 [] c = "v" -> 118

\* const char* dirname = "/dev/input"
dirname == <<"/", "d", "e", "v", "/", "i", "n", "p", "u", "t">>

\* The empty string (a zeroed slot has a NULL path and name).
NoString == << >>

Min(a, b) == IF a < b THEN a ELSE b

\* snprintf(path, sizeof(path), "%s/%s", dirname, d_name): the formatted
\* string cut to sizeof(path) - 1 characters.
snprintfPath(d_name) ==
    LET full == dirname \o <<"/">> \o d_name
    IN  SubSeq(full, 1, Min(Len(full), PathSize - 1))

\* _glfw_strcmp: negative, zero or positive as a is before, equal to or
\* after b, comparing character codes, the shorter string first on a tie.
RECURSIVE strcmpFrom(_, _, _)
strcmpFrom(a, b, i) ==
    IF i > Len(a) /\ i > Len(b) THEN 0
    ELSE IF i > Len(a) THEN -1
    ELSE IF i > Len(b) THEN 1
    ELSE IF CharCode(a[i]) # CharCode(b[i]) THEN CharCode(a[i]) - CharCode(b[i])
    ELSE strcmpFrom(a, b, i + 1)

glfw_strcmp(a, b) == strcmpFrom(a, b, 1)

\* regexec of "^js[0-9]\+$" on a name: TRUE when it matches (regexec = 0).
regexMatches(d_name) ==
    /\ Len(d_name) >= 3
    /\ d_name[1] = "j"
    /\ d_name[2] = "s"
    /\ \A i \in 3..Len(d_name) : d_name[i] \in Digits

(***************************************************************************)
(* The environment: device files of /dev/input and their drivers           *)
(***************************************************************************)
js0 == <<"j", "s", "0">>
js1 == <<"j", "s", "1">>
js10 == <<"j", "s", "1", "0">>
js2 == <<"j", "s", "2">>
event0 == <<"e", "v", "e", "n", "t", "0">>

\* Names a file of the directory can have: joystick nodes and one evdev node.
Names == {js0, js1, js10, js2, event0}

\* A directory entry is absent, present but not yet readable (created, udev
\* has not set its permissions), or ready.
FileStates == {"absent", "noperm", "ready"}

\* JSIOCGVERSION of the driver behind a node: js2 is an old 0.x driver.
DriverVersionOf(d_name) == IF d_name = js2 THEN 2304 ELSE 131328

\* JSIOCGNAME: the identifier string, or "" when the ioctl fails.
DriverNameOf(d_name) ==
    CASE d_name = js0 -> "Gamepad"
      [] d_name = js1 -> ""
      [] OTHER -> "Flight Stick"

\* JSIOCGAXES and JSIOCGBUTTONS
DriverAxesOf(d_name) == IF d_name = js0 THEN 2 ELSE 1
DriverButtonsOf(d_name) == IF d_name = js1 THEN 2 ELSE 1

\* Raw values a driver event can carry (signed 16 bit).
AxisRaw == {-32768, 32767}
ButtonRaw == {0, 1}

\* struct js_event records the driver of a node can queue.
DriverEvents(d_name) ==
    [type : {JS_EVENT_AXIS, JS_EVENT_AXIS + JS_EVENT_INIT},
     number : 0..(DriverAxesOf(d_name) - 1), value : AxisRaw]
    \cup
    [type : {JS_EVENT_BUTTON, JS_EVENT_BUTTON + JS_EVENT_INIT},
     number : 0..(DriverButtonsOf(d_name) - 1), value : ButtonRaw]

(***************************************************************************)
(* State                                                                   *)
(***************************************************************************)
VARIABLES
    phase,      \* "uninit", "running", "failed" (init returned false), "terminated"
    files,      \* the directory: [Names -> FileStates]
    fdtab,      \* descriptor table of the process: [Fds -> descriptor]
    inotifyQ,   \* unread inotify events (the name field of each)
    inotify,    \* _glfw.linux_js.inotify
    watch,      \* _glfw.linux_js.watch
    regexOk,    \* _glfw.linux_js.regex has been compiled
    js,         \* _glfw.linux_js.js: the slot table
    notified,   \* per jid, what _glfwInputJoystickChange last delivered
    emitted,    \* notifications delivered by the last operation, in order
    calls,      \* the openJoystickDevice calls of the last operation, in order
    op,         \* the last operation and its arguments
    ret,        \* what the last operation returned: [ok, value]
    outCount,   \* the caller's *count variable of the last query
    envSteps    \* environment steps taken so far

vars == <<phase, files, fdtab, inotifyQ, inotify, watch, regexOk, js, notified,
          emitted, calls, op, ret, outCount, envSteps>>

Jids == 0..GLFW_JOYSTICK_LAST
Fds == 3..MaxFd

FreeFd == [kind |-> "free", dev |-> NoString, gone |-> FALSE, queue |-> << >>]

\* A zeroed _GLFWjoystickLinux (static storage, or after _glfw_memset).
EmptySlot ==
    [present |-> FALSE, fd |-> 0, path |-> NoString, name |-> "",
     axisCount |-> 0, axes |-> << >>, buttonCount |-> 0, buttons |-> << >>]

\* What the caller's count variable holds before a query writes to it.
CallerCount == -1

\* What an operation returned: ok is TRUE for GLFW_TRUE, a present joystick
\* or a non-NULL pointer; value is the value itself.
Returned(ok, value) == [ok |-> ok, value |-> value]

\* No operation has returned (or it returns void).
NoReturn == Returned(TRUE, "void")

NoNotification == [event |-> "NONE", path |-> NoString, during |-> "none"]

\* A float as an exact fraction.
Float(n, d) == [num |-> n, den |-> d]

\* _glfw_calloc(count, size): count zeroed elements.
calloc(count, zero) == [i \in 1..count |-> zero]

(***************************************************************************)
(* Kernel calls                                                            *)
(***************************************************************************)
\* The lowest descriptor number not in use, or -1 (EMFILE).
LowestFreeFd(tab) ==
    IF \E f \in Fds : tab[f].kind = "free"
    THEN CHOOSE f \in Fds :
            /\ tab[f].kind = "free"
            /\ \A g \in Fds : tab[g].kind = "free" => f <= g
    ELSE -1

\* open(path, O_RDONLY | O_NONBLOCK): the new descriptor, or -1 when no
\* readable file has exactly that path or no descriptor is left.
open(tab, dir, path) ==
    IF \E d \in Names : dirname \o <<"/">> \o d = path /\ dir[d] = "ready"
    THEN LowestFreeFd(tab)
    ELSE -1

\* The file a successfully opened path names.
FileAt(path) == CHOOSE d \in Names : dirname \o <<"/">> \o d = path

\* close(fd)
close(tab, fd) == [tab EXCEPT ![fd] = FreeFd]

(***************************************************************************)
(* openJoystickDevice                                                      *)
(*                                                                         *)
(* The operations work on a record m of the fields they change (js,       *)
(* fdtab, notified, emitted, calls) and the kind of operation (during).    *)
(***************************************************************************)
\* _glfwInputJoystickChange(jid, event); path is the path the slot held
\* when the notification was about it, during the operation delivering it.
InputJoystickChange(m, jid, event, path) ==
    [m EXCEPT !.notified[jid] = [event |-> event, path |-> path,
                                 during |-> m.during],
              !.emitted = Append(@, [jid |-> jid, event |-> event, path |-> path])]

\* Variant of pathAlreadyOpen without the first loop.
pathNeverOpen(slots, path) == FALSE

\* First loop: some present slot already holds this path.
pathAlreadyOpen(slots, path) ==
    \E jid \in Jids :
        /\ slots[jid].present
        /\ glfw_strcmp(slots[jid].path, path) = 0

\* Variant of firstFreeJid that scans the slots from the top.
lastFreeJid(slots) ==
    IF \E jid \in Jids : ~slots[jid].present
    THEN CHOOSE jid \in Jids :
            /\ ~slots[jid].present
            /\ \A k \in Jids : ~slots[k].present => jid >= k
    ELSE GLFW_JOYSTICK_LAST + 1

\* Second loop: the first slot that is not present, GLFW_JOYSTICK_LAST + 1
\* when every slot is present.
firstFreeJid(slots) ==
    IF \E jid \in Jids : ~slots[jid].present
    THEN CHOOSE jid \in Jids :
            /\ ~slots[jid].present
            /\ \A k \in Jids : ~slots[k].present => jid <= k
    ELSE GLFW_JOYSTICK_LAST + 1

\* if (version < 0x010000): an old 0.x interface
versionTooOld(version) == version < MinDriverVersion

\* Variant of rejectOldVersion that returns without closing.
rejectWithoutClose(tab, fd) == tab

\* The descriptor table after an old interface has been turned down:
\* close(fd); return GLFW_FALSE;
rejectOldVersion(tab, fd) == close(tab, fd)

\* Variant of filledSlot that stores each count in the other's field.
filledSlotSwapped(path, fd, d_name) ==
    [present |-> TRUE,
     fd |-> fd,
     path |-> path,
     name |-> IF DriverNameOf(d_name) = "" THEN "Unknown" ELSE DriverNameOf(d_name),
     axisCount |-> DriverButtonsOf(d_name),
     axes |-> calloc(DriverAxesOf(d_name), Float(0, 1)),
     buttonCount |-> DriverAxesOf(d_name),
     buttons |-> calloc(DriverButtonsOf(d_name), 0)]

\* The slot as filled for a device opened on fd.
filledSlot(path, fd, d_name) ==
    [present |-> TRUE,
     fd |-> fd,
     path |-> path,
     name |-> IF DriverNameOf(d_name) = "" THEN "Unknown" ELSE DriverNameOf(d_name),
     axisCount |-> DriverAxesOf(d_name),
     axes |-> calloc(DriverAxesOf(d_name), Float(0, 1)),
     buttonCount |-> DriverButtonsOf(d_name),
     buttons |-> calloc(DriverButtonsOf(d_name), 0)]

\* What a call leaves behind, without the call log.
Snapshot(m) ==
    [js |-> m.js, fdtab |-> m.fdtab, notified |-> m.notified, emitted |-> m.emitted]

\* The body of openJoystickDevice: [m |-> the state after, ret |-> GLFWbool].
openJoystickDeviceBody(m, dir, path) ==
    IF pathAlreadyOpen(m.js, path) THEN [m |-> m, ret |-> FALSE]
    ELSE LET jid == firstFreeJid(m.js) IN
    IF jid > GLFW_JOYSTICK_LAST THEN [m |-> m, ret |-> FALSE]
    ELSE LET fd == open(m.fdtab, dir, path) IN
    IF fd = -1 THEN [m |-> m, ret |-> FALSE]
    ELSE LET d_name == FileAt(path)
             opened == [m EXCEPT !.fdtab[fd] =
                           [kind |-> "js", dev |-> d_name, gone |-> FALSE,
                            queue |-> << >>]] IN
    IF versionTooOld(DriverVersionOf(d_name))
    THEN [m |-> [opened EXCEPT !.fdtab = rejectOldVersion(opened.fdtab, fd)],
          ret |-> FALSE]
    ELSE [m |-> InputJoystickChange(
                    [opened EXCEPT !.js[jid] = filledSlot(path, fd, d_name)],
                    jid, "CONNECTED", path),
          ret |-> TRUE]

\* openJoystickDevice(path), recording the call in m.calls.
openJoystickDevice(m, dir, path) ==
    LET r == openJoystickDeviceBody(m, dir, path)
    IN  [m |-> [r.m EXCEPT !.calls =
                    Append(@, [path |-> path, ret |-> r.ret,
                               pre |-> Snapshot(m), post |-> Snapshot(r.m)])],
         ret |-> r.ret]

(***************************************************************************)
(* _glfwPollJoystickEvents: hot-plug processing                            *)
(***************************************************************************)
\* The while loop over the inotify events read into the buffer.
RECURSIVE processInotify(_, _, _)
processInotify(m, dir, events) ==
    IF events = << >> THEN m
    ELSE LET name == Head(events)
             next == IF regexMatches(name)
                     THEN openJoystickDevice(m, dir, snprintfPath(name)).m
                     ELSE m
         IN  processInotify(next, dir, Tail(events))

\* read(_glfw.linux_js.inotify, buffer, sizeof(buffer)): every queued event,
\* none when the handle is invalid.
readInotify(handle, queue) == IF handle = -1 THEN << >> ELSE queue

glfwPollJoystickEvents(m, dir, handle, queue) ==
    processInotify(m, dir, readInotify(handle, queue))

(***************************************************************************)
(* pollJoystickEvents                                                      *)
(***************************************************************************)
\* Variant of clearInitBit that leaves the type as read.
keepInitBit(type) == type

\* e.type &= ~JS_EVENT_INIT on the unsigned 8-bit type field
clearInitBit(type) ==
    IF (type \div JS_EVENT_INIT) % 2 = 1 THEN type - JS_EVENT_INIT ELSE type

\* js->axes[e.number] = (float) e.value / 32767.0f
axisValue(value) == Float(value, AxisDivisor)

\* js->buttons[e.number] = e.value ? GLFW_PRESS : GLFW_RELEASE
buttonValue(value) == IF value # 0 THEN GLFW_PRESS ELSE GLFW_RELEASE

\* The slot after one event has been applied.
applyEvent(slot, e) ==
    LET type == clearInitBit(e.type) IN
    IF type = JS_EVENT_AXIS
    THEN [slot EXCEPT !.axes[e.number + 1] = axisValue(e.value)]
    ELSE IF type = JS_EVENT_BUTTON
    THEN [slot EXCEPT !.buttons[e.number + 1] = buttonValue(e.value)]
    ELSE slot

\* Variant of resetSlot that zeroes the slot and tells nobody.
resetSlotSilently(m, jid) == [m EXCEPT !.js[jid] = EmptySlot]

\* The ENODEV branch: free the arrays, zero the slot, notify.
resetSlot(m, jid) ==
    InputJoystickChange([m EXCEPT !.js[jid] = EmptySlot],
                        jid, "DISCONNECTED", m.js[jid].path)

\* errno after read(js->fd, &e, sizeof(e)) on a non-blocking joydev
\* descriptor: ENODEV once the device is gone, EAGAIN when nothing is
\* queued, 0 when a record was read.
readErrno(d) ==
    IF d.gone THEN "ENODEV" ELSE IF d.queue = << >> THEN "EAGAIN" ELSE "0"

\* Variant of isDisconnect that takes every failed read for a removal.
isAnyError(errno) == TRUE

\* if (errno == ENODEV): the failed read resets the slot.
isDisconnect(errno) == errno = "ENODEV"

\* The for (;;) loop: read until read() fails.
RECURSIVE readAllEvents(_, _)
readAllEvents(m, jid) ==
    LET fd == m.js[jid].fd
        d == m.fdtab[fd]
        errno == readErrno(d) IN
    IF errno # "0"
    THEN IF isDisconnect(errno) THEN resetSlot(m, jid) ELSE m
    ELSE readAllEvents(
            [m EXCEPT !.js[jid] = applyEvent(@, Head(d.queue)),
                      !.fdtab[fd].queue = Tail(@)],
            jid)

\* pollJoystickEvents(js): [m |-> the state after, ret |-> js->present].
pollJoystickEvents(m, dir, handle, queue, jid) ==
    LET hot == glfwPollJoystickEvents(m, dir, handle, queue) IN
    IF ~hot.js[jid].present THEN [m |-> hot, ret |-> FALSE]
    ELSE LET done == readAllEvents(hot, jid)
         IN  [m |-> done, ret |-> done.js[jid].present]

(***************************************************************************)
(* _glfwInitJoysticksLinux and _glfwTerminateJoysticksLinux                *)
(***************************************************************************)
\* Lexically compare joysticks by path; used by qsort.
compareJoysticks(fj, sj) == glfw_strcmp(fj.path, sj.path)

\* Insert a slot into a sequence ordered by compareJoysticks.
RECURSIVE insertSlot(_, _)
insertSlot(sorted, slot) ==
    IF sorted = << >> THEN <<slot>>
    ELSE IF compareJoysticks(slot, Head(sorted)) < 0 THEN <<slot>> \o sorted
    ELSE <<Head(sorted)>> \o insertSlot(Tail(sorted), slot)

RECURSIVE sortSlots(_, _, _)
sortSlots(slots, count, sorted) ==
    IF count = 0 THEN sorted
    ELSE sortSlots(slots, count - 1, insertSlot(sorted, slots[count - 1]))

\* Variant of qsortJoysticks that leaves the slots in discovery order.
qsortSkipped(slots, count) == slots

\* _glfw_qsort(js, count, sizeof(_GLFWjoystickLinux), compareJoysticks):
\* the first count slots in ascending order, the others where they were.
qsortJoysticks(slots, count) ==
    LET sorted == sortSlots(slots, count, << >>)
    IN  [jid \in Jids |-> IF jid < count THEN sorted[jid + 1] ELSE slots[jid]]

\* The readdir loop: [m |-> the state after, count |-> devices opened].
RECURSIVE enumerate(_, _, _, _)
enumerate(m, dir, entries, count) ==
    IF entries = << >> THEN [m |-> m, count |-> count]
    ELSE IF ~regexMatches(Head(entries))
    THEN enumerate(m, dir, Tail(entries), count)
    ELSE LET r == openJoystickDevice(m, dir, snprintfPath(Head(entries)))
         IN  enumerate(r.m, dir, Tail(entries), IF r.ret THEN count + 1 ELSE count)

\* Everything from opendir to the qsort, entries being what readdir yields
\* (nothing when opendir fails).
enumerateAndSort(m, dir, entries) ==
    LET r == enumerate(m, dir, entries, 0)
    IN  [r.m EXCEPT !.js = qsortJoysticks(r.m.js, r.count)]

\* The orders in which readdir can yield the entries of the directory.
Present(dir) == {d \in Names : dir[d] # "absent"}

ReaddirOrders(dir) ==
    {o \in [1..Cardinality(Present(dir)) -> Present(dir)] :
        \A i, j \in DOMAIN o : i # j => o[i] # o[j]}

\* The fields the operations change, at the start of an operation, and
\* which kind of operation it is ("init" or "query").
Machine == [js |-> js, fdtab |-> fdtab, notified |-> notified,
            emitted |-> << >>, calls |-> << >>, during |-> "query"]

Install(m) ==
    /\ js' = m.js
    /\ fdtab' = m.fdtab
    /\ notified' = m.notified
    /\ emitted' = m.emitted
    /\ calls' = m.calls

\* The loop of _glfwTerminateJoysticksLinux: close the descriptor of every
\* present slot.
RECURSIVE closePresent(_, _, _)
closePresent(tab, slots, i) ==
    IF i > GLFW_JOYSTICK_LAST THEN tab
    ELSE closePresent(IF slots[i].present THEN close(tab, slots[i].fd) ELSE tab,
                      slots, i + 1)

\* if (inotify > 0) { ...; close(inotify); }
closeInotify(tab, handle) == IF handle > 0 THEN close(tab, handle) ELSE tab

(***************************************************************************)
(* Initial state and actions                                               *)
(***************************************************************************)
Init ==
    /\ phase = "uninit"
    /\ files \in [Names -> {"absent", "ready"}]
    /\ files[event0] = "ready"
    /\ fdtab = [f \in Fds |-> FreeFd]
    /\ inotifyQ = << >>
    /\ inotify = 0
    /\ watch = 0
    /\ regexOk = FALSE
    /\ js = [jid \in Jids |-> EmptySlot]
    /\ notified = [jid \in Jids |-> NoNotification]
    /\ emitted = << >>
    /\ calls = << >>
    /\ op = [name |-> "none"]
    /\ ret = NoReturn
    /\ outCount = CallerCount
    /\ envSteps = 0

\* The system calls of _glfwInitJoysticksLinux that can fail.
InitCalls == {"inotify_init1", "inotify_add_watch", "regcomp", "opendir"}

\* Variant of initReturns in which a failed inotify_add_watch returns
\* GLFW_FALSE as well.
initReturnsWatched(failed) ==
    IF "inotify_init1" \in failed THEN FALSE
    ELSE IF "inotify_add_watch" \in failed THEN FALSE
    ELSE IF "regcomp" \in failed THEN FALSE
    ELSE TRUE

\* What _glfwInitJoysticksLinux returns, failed being the calls that failed:
\* `return GLFW_FALSE` stands under inotify_init1 and under regcomp, the
\* branches of inotify_add_watch and opendir report an error and go on.
initReturns(failed) ==
    IF "inotify_init1" \in failed THEN FALSE
    ELSE IF "regcomp" \in failed THEN FALSE
    ELSE TRUE

\* The record of a call of _glfwInitJoysticksLinux and its return value.
InitReturned(failed) ==
    /\ op' = [name |-> "init", failed |-> failed]
    /\ ret' = Returned(initReturns(failed), initReturns(failed))
    /\ phase' = IF initReturns(failed) THEN "running" ELSE "failed"

\* inotify_init1 fails: _glfwInitJoysticksLinux returns GLFW_FALSE.
InitInotifyFails ==
    /\ phase = "uninit"
    /\ InitReturned({"inotify_init1"})
    /\ inotify' = -1
    /\ emitted' = << >>
    /\ calls' = << >>
    /\ UNCHANGED <<files, fdtab, inotifyQ, watch, regexOk, js, notified,
                   outCount, envSteps>>

\* regcomp fails: GLFW_FALSE, with the inotify handle (and watch) in place.
InitRegcompFails ==
    /\ phase = "uninit"
    /\ inotify' = LowestFreeFd(fdtab)
    /\ fdtab' = [fdtab EXCEPT ![inotify'] = [FreeFd EXCEPT !.kind = "inotify"]]
    /\ \E w \in {-1, 1} :
        /\ watch' = w
        /\ InitReturned({"regcomp"} \cup
                        (IF w = -1 THEN {"inotify_add_watch"} ELSE {}))
    /\ emitted' = << >>
    /\ calls' = << >>
    /\ UNCHANGED <<files, inotifyQ, regexOk, js, notified, outCount, envSteps>>

\* _glfwInitJoysticksLinux returning GLFW_TRUE.  addWatch and dirOpens are
\* whether inotify_add_watch and opendir succeed; order is the order in
\* which readdir yields the entries.
InitJoysticks ==
    /\ phase = "uninit"
    /\ \E addWatch \in BOOLEAN, dirOpens \in BOOLEAN, order \in ReaddirOrders(files) :
        LET handle == LowestFreeFd(fdtab)
            m0 == [Machine EXCEPT
                      !.fdtab[handle] = [FreeFd EXCEPT !.kind = "inotify"],
                      !.during = "init"]
            m1 == enumerateAndSort(m0, files, IF dirOpens THEN order ELSE << >>)
        IN  /\ inotify' = handle
            /\ watch' = IF addWatch THEN 1 ELSE -1
            /\ Install(m1)
            /\ InitReturned((IF addWatch THEN {} ELSE {"inotify_add_watch"}) \cup
                            (IF dirOpens THEN {} ELSE {"opendir"}))
    /\ regexOk' = TRUE
    /\ UNCHANGED <<files, inotifyQ, outCount, envSteps>>

\* _glfwTerminateJoysticksLinux
Terminate ==
    /\ phase \in {"running", "failed"}
    /\ phase' = "terminated"
    /\ fdtab' = closeInotify(closePresent(fdtab, js, 0), inotify)
    /\ regexOk' = FALSE
    /\ op' = [name |-> "terminate"]
    /\ ret' = NoReturn
    /\ emitted' = << >>
    /\ calls' = << >>
    /\ UNCHANGED <<files, inotifyQ, inotify, watch, js, notified, outCount, envSteps>>

\* pollJoystickEvents(js + jid) from the current state.
Polled(jid) == pollJoystickEvents(Machine, files, inotify, inotifyQ, jid)

\* The part the four platform queries share: the state pollJoystickEvents
\* leaves, r being what it returned.
Query(name, jid, r) ==
    /\ phase = "running"
    /\ Install(r.m)
    /\ inotifyQ' = << >>
    /\ op' = [name |-> name, jid |-> jid]
    /\ UNCHANGED <<phase, files, inotify, watch, regexOk, envSteps>>

\* int _glfwPlatformJoystickPresent(int jid)
PlatformJoystickPresent(jid) ==
    LET r == Polled(jid) IN
    /\ Query("JoystickPresent", jid, r)
    /\ ret' = Returned(r.ret, r.ret)
    /\ UNCHANGED outCount

\* const float* _glfwPlatformGetJoystickAxes(int jid, int* count)
PlatformGetJoystickAxes(jid) ==
    LET r == Polled(jid) IN
    /\ Query("GetJoystickAxes", jid, r)
    /\ IF ~r.ret
       THEN ret' = Returned(FALSE, "NULL") /\ UNCHANGED outCount
       ELSE ret' = Returned(TRUE, r.m.js[jid].axes) /\ outCount' = r.m.js[jid].axisCount

\* const unsigned char* _glfwPlatformGetJoystickButtons(int jid, int* count)
PlatformGetJoystickButtons(jid) ==
    LET r == Polled(jid) IN
    /\ Query("GetJoystickButtons", jid, r)
    /\ IF ~r.ret
       THEN ret' = Returned(FALSE, "NULL") /\ UNCHANGED outCount
       ELSE ret' = Returned(TRUE, r.m.js[jid].buttons)
            /\ outCount' = r.m.js[jid].buttonCount

\* const char* _glfwPlatformGetJoystickName(int jid)
PlatformGetJoystickName(jid) ==
    LET r == Polled(jid) IN
    /\ Query("GetJoystickName", jid, r)
    /\ ret' = (IF ~r.ret THEN Returned(FALSE, "NULL")
                ELSE Returned(TRUE, r.m.js[jid].name))
    /\ UNCHANGED outCount

(***************************************************************************)
(* Environment actions                                                     *)
(***************************************************************************)
Watching == watch # -1

\* An environment step is no operation of the module: it leaves the record
\* of the last operation empty, and the caller's count variable as the
\* caller initialises it.
EnvStep ==
    /\ phase = "running"
    /\ envSteps < MaxEnvSteps
    /\ envSteps' = envSteps + 1
    /\ op' = [name |-> "env"]
    /\ ret' = NoReturn
    /\ emitted' = << >>
    /\ calls' = << >>
    /\ outCount' = CallerCount

\* The kernel queues an inotify event for name when the directory is watched.
QueueInotify(name) ==
    IF Watching THEN inotifyQ' = Append(inotifyQ, name) ELSE UNCHANGED inotifyQ

\* A device is attached: its node is created, readable at once or not yet.
Plug(name) ==
    /\ EnvStep
    /\ files[name] = "absent"
    /\ Len(inotifyQ) < MaxInotify
    /\ \E st \in {"noperm", "ready"} : files' = [files EXCEPT ![name] = st]
    /\ QueueInotify(name)
    /\ UNCHANGED <<phase, fdtab, inotify, watch, regexOk, js, notified>>

\* The attributes of a node change (udev sets its permissions).
Chmod(name) ==
    /\ EnvStep
    /\ files[name] # "absent"
    /\ Len(inotifyQ) < MaxInotify
    /\ files' = [files EXCEPT ![name] = "ready"]
    /\ QueueInotify(name)
    /\ UNCHANGED <<phase, fdtab, inotify, watch, regexOk, js, notified>>

\* A device is detached: its node disappears and every descriptor open on
\* it reports ENODEV from now on.
Unplug(name) ==
    /\ EnvStep
    /\ name # event0
    /\ files[name] # "absent"
    /\ files' = [files EXCEPT ![name] = "absent"]
    /\ fdtab' = [f \in Fds |->
                    IF fdtab[f].kind = "js" /\ fdtab[f].dev = name
                    THEN [fdtab[f] EXCEPT !.gone = TRUE, !.queue = << >>]
                    ELSE fdtab[f]]
    /\ UNCHANGED <<phase, inotifyQ, inotify, watch, regexOk, js, notified>>

\* The driver queues an event on an open descriptor of a live device.
DriverEvent(fd, e) ==
    /\ EnvStep
    /\ fdtab[fd].kind = "js"
    /\ ~fdtab[fd].gone
    /\ e \in DriverEvents(fdtab[fd].dev)
    /\ Len(fdtab[fd].queue) < MaxQueue
    /\ fdtab' = [fdtab EXCEPT ![fd].queue = Append(@, e)]
    /\ UNCHANGED <<phase, files, inotifyQ, inotify, watch, regexOk, js, notified>>

AllDriverEvents == UNION {DriverEvents(d) : d \in Names}

\* The directory of the polling specification: two joysticks and the
\* evdev node.
PollDirectory ==
    [d \in Names |-> IF d \in {js0, js1, event0} THEN "ready" ELSE "absent"]

InitPoll == Init /\ files = PollDirectory

Lifecycle ==
    \/ InitInotifyFails
    \/ InitRegcompFails
    \/ InitJoysticks
    \/ Terminate

Queries ==
    \/ \E jid \in Jids : PlatformJoystickPresent(jid)
    \/ \E jid \in Jids : PlatformGetJoystickAxes(jid)
    \/ \E jid \in Jids : PlatformGetJoystickButtons(jid)
    \/ \E jid \in Jids : PlatformGetJoystickName(jid)

Hotplug ==
    \/ \E name \in Names : Plug(name)
    \/ \E name \in Names : Chmod(name)
    \/ \E name \in Names : Unplug(name)

\* Discovery, hot-plug and lifecycle from every initial directory; the
\* drivers queue no events.
Next ==
    \/ Lifecycle
    \/ Queries
    \/ Hotplug

Spec == Init /\ [][Next]_vars

\* The same operations from one initial directory, with driver events.
NextPoll ==
    \/ Lifecycle
    \/ Queries
    \/ Hotplug
    \/ \E fd \in Fds, e \in AllDriverEvents : DriverEvent(fd, e)

SpecPoll == InitPoll /\ [][NextPoll]_vars

(***************************************************************************)
(* Properties                                                              *)
(***************************************************************************)
QueryNames == {"JoystickPresent", "GetJoystickAxes", "GetJoystickButtons",
               "GetJoystickName"}

\* The last operation was a platform query.
AfterQuery == op.name \in QueryNames

\* The last operation was _glfwInitJoysticksLinux and it returned GLFW_TRUE.
AfterInit == op.name = "init" /\ ret.ok

\* How many openJoystickDevice calls of the last operation returned true.
OpenedCount == Cardinality({i \in DOMAIN calls : calls[i].ret})

\* C1: a slot's presence flag is set exactly when the last notification
\* delivered for its jid was CONNECTED; a jid that has had no notification
\* is not present.
C1_PresentIffConnected ==
    \A jid \in Jids : js[jid].present <=> notified[jid].event = "CONNECTED"

\* C1 witness: a query has just disconnected one slot while another slot
\* is connected.
C1_Witness ==
    /\ AfterQuery
    /\ \E jid \in Jids : notified[jid].event = "DISCONNECTED" /\ ~js[jid].present
    /\ \E jid \in Jids : notified[jid].event = "CONNECTED" /\ js[jid].present

\* C2: once _glfwTerminateJoysticksLinux has returned, no descriptor that
\* openJoystickDevice opened is still open.
C2_AllDescriptorsClosed ==
    phase = "terminated" => \A f \in Fds : fdtab[f].kind # "js"

\* C3: after a successful initialize that opened count devices, the present
\* slots are exactly 0..count-1 and their paths ascend strictly with jid.
C3_SortedAfterInit ==
    AfterInit =>
        /\ \A jid \in Jids : js[jid].present <=> jid < OpenedCount
        /\ \A i, j \in Jids :
              i < j /\ j < OpenedCount => glfw_strcmp(js[i].path, js[j].path) < 0

\* C3 witness: initialize opened at least two devices and readdir yielded
\* two of the opened ones in descending order.
C3_Witness ==
    /\ AfterInit
    /\ OpenedCount >= 2
    /\ \E i, j \in DOMAIN calls :
          /\ i < j
          /\ calls[i].ret
          /\ calls[j].ret
          /\ glfw_strcmp(calls[i].path, calls[j].path) > 0

\* The state _glfwInitJoysticksLinux enumerates from: every slot zeroed and
\* the inotify handle the only descriptor.
MachineAtInit ==
    [js |-> [jid \in Jids |-> EmptySlot],
     fdtab |-> [f \in Fds |-> IF f = inotify
                              THEN [FreeFd EXCEPT !.kind = "inotify"]
                              ELSE FreeFd],
     notified |-> [jid \in Jids |-> NoNotification],
     emitted |-> << >>,
     calls |-> << >>,
     during |-> "init"]

\* Which path occupies which jid.
SlotPaths(slots) == [jid \in Jids |-> slots[jid].path]

\* The slot table is the one every readdir order of the directory gives.
SameForEveryOrder ==
    \A o \in ReaddirOrders(files) :
        SlotPaths(enumerateAndSort(MachineAtInit, files, o).js) = SlotPaths(js)

\* The device files openJoystickDevice accepts while a slot is free.
Acceptable ==
    {d \in Names : /\ regexMatches(d)
                   /\ files[d] = "ready"
                   /\ DriverVersionOf(d) >= MinDriverVersion}

\* C4 as claimed: after a successful initialize that read the directory,
\* the slot table is the same for every order of enumeration.
C4_DeterministicSlots ==
    (AfterInit /\ calls # << >>) => SameForEveryOrder

\* C4 amended: the same, provided the directory holds no more acceptable
\* devices than there are slots.
C4_DeterministicWhenAllFit ==
    (AfterInit /\ calls # << >> /\ Cardinality(Acceptable) <= GLFW_JOYSTICK_LAST + 1)
        => SameForEveryOrder

\* C4 witness: initialize filled two slots from an enumeration that was
\* not in ascending order, and every acceptable device fitted.
C4_Witness ==
    /\ AfterInit
    /\ Cardinality(Acceptable) = 2
    /\ Cardinality(Acceptable) <= GLFW_JOYSTICK_LAST + 1
    /\ \E i, j \in DOMAIN calls :
          /\ i < j
          /\ calls[i].ret
          /\ calls[j].ret
          /\ glfw_strcmp(calls[i].path, calls[j].path) > 0

\* The reasons for which openJoystickDevice turns a path down, read off the
\* state the call started in.
HeldByPresentSlot(c) ==
    \E jid \in Jids : c.pre.js[jid].present /\ c.pre.js[jid].path = c.path

AllSlotsPresent(c) == \A jid \in Jids : c.pre.js[jid].present

OpenWouldFail(c) == open(c.pre.fdtab, files, c.path) = -1

OldDriver(c) ==
    \E d \in Names :
        /\ dirname \o <<"/">> \o d = c.path
        /\ DriverVersionOf(d) < MinDriverVersion

\* The device of the path is in a slot: a present slot holds the path with
\* a descriptor on the live device, and the last notification for that jid
\* was a CONNECTED.
Registered(path) ==
    \E jid \in Jids :
        /\ js[jid].present
        /\ js[jid].path = path
        /\ ~fdtab[js[jid].fd].gone
        /\ notified[jid].event = "CONNECTED"

\* C5: when a platform query returns, every device that had a matching
\* inotify event pending is registered in a slot with a CONNECTED
\* notification, provided a slot was free when its event was processed,
\* the device opens and its driver version is at least 1.0.
C5_HotplugRegisters ==
    AfterQuery =>
        \A i \in DOMAIN calls :
            (/\ ~AllSlotsPresent(calls[i])
             /\ ~OpenWouldFail(calls[i])
             /\ ~OldDriver(calls[i]))
            => Registered(calls[i].path)

\* C8: a call of openJoystickDevice that meets one of the four reasons for
\* rejection returns false and leaves the slot table, the notifications and
\* the set of open descriptors as they were.
C8_RejectionLeavesNoTrace ==
    \A i \in DOMAIN calls :
        (\/ HeldByPresentSlot(calls[i])
         \/ AllSlotsPresent(calls[i])
         \/ OpenWouldFail(calls[i])
         \/ OldDriver(calls[i]))
        => /\ ~calls[i].ret
           /\ calls[i].post.js = calls[i].pre.js
           /\ calls[i].post.emitted = calls[i].pre.emitted
           /\ calls[i].post.notified = calls[i].pre.notified
           /\ calls[i].post.fdtab = calls[i].pre.fdtab

\* C8 witness: a call got as far as opening the device and turned it down
\* for its driver version.
C8_Witness ==
    \E i \in DOMAIN calls :
        /\ ~HeldByPresentSlot(calls[i])
        /\ ~AllSlotsPresent(calls[i])
        /\ ~OpenWouldFail(calls[i])
        /\ OldDriver(calls[i])
        /\ ~calls[i].ret

\* C9 as claimed: while the last notification for a jid is the CONNECTED
\* of a device, that jid is the slot holding the device's path.
C9_ConnectedJidHoldsPath ==
    \A jid \in Jids :
        notified[jid].event = "CONNECTED"
            => js[jid].present /\ js[jid].path = notified[jid].path

\* C9 amended: while the last notification for a jid is a CONNECTED, the
\* slot is present, and it holds the path the notification was about when
\* a platform query delivered it.
C9_QueryConnectedJidHoldsPath ==
    \A jid \in Jids :
        notified[jid].event = "CONNECTED"
            => /\ js[jid].present
               /\ notified[jid].during = "query"
                    => js[jid].path = notified[jid].path

\* C9 witness: a query has returned that left alone a slot which an
\* earlier query had connected.
C9_Witness ==
    /\ AfterQuery
    /\ \E jid \in Jids :
          /\ notified[jid].event = "CONNECTED"
          /\ notified[jid].during = "query"
          /\ js[jid].present
          /\ \A i \in DOMAIN emitted : emitted[i].jid # jid

\* C10: no two present slots hold the same path, and a call of
\* openJoystickDevice for a path a present slot holds fills no slot and
\* notifies nobody.
C10_NoDuplicatePaths ==
    /\ \A j, k \in Jids :
          j # k /\ js[j].present /\ js[k].present => js[j].path # js[k].path
    /\ \A i \in DOMAIN calls :
          HeldByPresentSlot(calls[i])
            => /\ calls[i].post.js = calls[i].pre.js
               /\ calls[i].post.emitted = calls[i].pre.emitted

\* C10 witness: one query processed a create event and an attribute-change
\* event for the same node; the first call registered it, the second did not.
C10_Witness ==
    /\ AfterQuery
    /\ Len(calls) = 2
    /\ calls[1].ret
    /\ calls[2].path = calls[1].path
    /\ ~calls[2].ret
    /\ Len(emitted) = 1

\* The greatest element of a non-empty set of numbers.
Max(S) == CHOOSE x \in S : \A y \in S : y <= x

\* Positions in a queue of the events of one kind for one index, the
\* initial-state bit of the type ignored.
EventsAt(q, type, number) ==
    {i \in DOMAIN q : /\ q[i].type \in {type, type + JS_EVENT_INIT}
                      /\ q[i].number = number}

\* What the last queued event for an axis leaves in it, prev when no event
\* is queued for it.
AxisAfter(q, number, prev) ==
    IF EventsAt(q, JS_EVENT_AXIS, number) = {} THEN prev
    ELSE [num |-> q[Max(EventsAt(q, JS_EVENT_AXIS, number))].value,
          den |-> AxisDivisor]

ButtonAfter(q, number, prev) ==
    IF EventsAt(q, JS_EVENT_BUTTON, number) = {} THEN prev
    ELSE IF q[Max(EventsAt(q, JS_EVENT_BUTTON, number))].value # 0
         THEN GLFW_PRESS ELSE GLFW_RELEASE

\* This step is a platform query on a slot that was present before it.
QueryOfPresentSlot == op'.name \in QueryNames /\ js[op'.jid].present

\* C6 for one step: a query of a present slot that leaves it present has
\* emptied the device's queue and left in every axis and button what the
\* last queued event for it says, or its previous value.
C6_Step ==
    (QueryOfPresentSlot /\ js'[op'.jid].present) =>
        LET jid == op'.jid
            fd == js[jid].fd
            q == fdtab[fd].queue
        IN  /\ fdtab'[fd].queue = << >>
            /\ DOMAIN js'[jid].axes = 1..js[jid].axisCount
            /\ DOMAIN js'[jid].buttons = 1..js[jid].buttonCount
            /\ \A n \in 0..(js[jid].axisCount - 1) :
                  js'[jid].axes[n + 1] = AxisAfter(q, n, js[jid].axes[n + 1])
            /\ \A n \in 0..(js[jid].buttonCount - 1) :
                  js'[jid].buttons[n + 1] = ButtonAfter(q, n, js[jid].buttons[n + 1])

\* C6: a poll of a present slot that returns without a disconnect has
\* consumed every queued driver event, and each axis and button holds the
\* value of the last queued event for its index (initial-state bit ignored,
\* button pressed iff the value is non-zero) or else its previous value.
C6_PollAppliesQueue == [][C6_Step]_vars

\* C6 witness: a query returned a present slot in which an axis has moved
\* and a button is pressed.
C6_Witness ==
    /\ AfterQuery
    /\ ret.ok
    /\ \E a \in DOMAIN js[op.jid].axes : js[op.jid].axes[a].num # 0
    /\ \E b \in DOMAIN js[op.jid].buttons : js[op.jid].buttons[b] = GLFW_PRESS

\* The slot table as the hot-plug processing at the start of the last
\* operation left it, that is, at the time of the first read.
TableAtRead == IF calls' = << >> THEN js ELSE calls'[Len(calls')].post.js

\* C7 for one step: a query of a present slot whose device is gone returns
\* not-present, zeroes the slot, delivers exactly one DISCONNECTED, for
\* that jid, and leaves the other slots as they were at the read; a query
\* whose read fails otherwise (EAGAIN) leaves the slot present, with the
\* same descriptor, path, name and counts, delivers no notification for
\* it, and leaves it wholly unchanged when nothing was queued.
C7_Step ==
    QueryOfPresentSlot =>
        LET jid == op'.jid
            fd == js[jid].fd
        IN  IF fdtab[fd].gone
            THEN /\ ~ret'.ok
                 /\ js'[jid] = EmptySlot
                 /\ Cardinality({i \in DOMAIN emitted' :
                                    emitted'[i].event = "DISCONNECTED"}) = 1
                 /\ \A i \in DOMAIN emitted' :
                       emitted'[i].event = "DISCONNECTED" => emitted'[i].jid = jid
                 /\ \A k \in Jids \ {jid} : js'[k] = TableAtRead[k]
            ELSE /\ ret'.ok
                 /\ js'[jid].present
                 /\ js'[jid].fd = js[jid].fd
                 /\ js'[jid].path = js[jid].path
                 /\ js'[jid].name = js[jid].name
                 /\ js'[jid].axisCount = js[jid].axisCount
                 /\ js'[jid].buttonCount = js[jid].buttonCount
                 /\ \A i \in DOMAIN emitted' : emitted'[i].jid # jid
                 /\ fdtab[fd].queue = << >> => js'[jid] = js[jid]

\* C7: ENODEV on a present slot's device makes the query return
\* not-present, clears the slot, delivers exactly one DISCONNECTED with the
\* slot's jid and leaves every other slot alone; any other read error
\* leaves the slot present and unchanged.
C7_DisconnectOnlyOnENODEV == [][C7_Step]_vars

\* C7 witness: a query has just returned not-present after delivering the
\* DISCONNECTED of its slot, while another slot is present.
C7_Witness ==
    /\ AfterQuery
    /\ ~ret.ok
    /\ ~js[op.jid].present
    /\ \E i \in DOMAIN emitted :
          emitted[i] = [jid |-> op.jid, event |-> "DISCONNECTED",
                        path |-> notified[op.jid].path]
    /\ \E k \in Jids \ {op.jid} : js[k].present

\* The lowest member of a non-empty set of integers.
Lowest(S) == CHOOSE x \in S : \A y \in S : x <= y

\* The jids whose slot is not present in a table of slots.
FreeJids(slots) == {jid \in Jids : ~slots[jid].present}

\* C11: every openJoystickDevice call that returned GLFW_TRUE filled the
\* lowest-numbered slot that was not present when it was called (a slot a
\* disconnect had freed included) with the device at its path, emitted one
\* notification, CONNECTED for that jid, and left every other slot as it was.
C11_LowestFreeSlot ==
    \A i \in DOMAIN calls :
        calls[i].ret =>
            LET pre == calls[i].pre
                post == calls[i].post
                free == FreeJids(pre.js)
            IN  /\ free # {}
                /\ LET jid == Lowest(free) IN
                    /\ post.js[jid].present
                    /\ post.js[jid].path = calls[i].path
                    /\ \A k \in Jids \ {jid} : post.js[k] = pre.js[k]
                    /\ post.emitted =
                           Append(pre.emitted,
                                  [jid |-> jid, event |-> "CONNECTED",
                                   path |-> calls[i].path])

\* C11 witness: a hot-plugged device has been opened into slot 0, which a
\* disconnect had freed, while the higher slot 1 was free as well.
C11_Witness ==
    /\ AfterQuery
    /\ \E i \in DOMAIN calls :
        /\ calls[i].ret
        /\ calls[i].pre.notified[0].event = "DISCONNECTED"
        /\ FreeJids(calls[i].pre.js) = Jids
        /\ calls[i].post.js[0].present
        /\ ~calls[i].post.js[1].present

\* The devices the present slots hold.
PresentDevices == {fdtab[js[jid].fd].dev : jid \in Jids \ FreeJids(js)}

\* C12: _glfwInitJoysticksLinux returns GLFW_FALSE exactly when
\* inotify_init1 or regcomp failed.  When it returns GLFW_TRUE after opendir
\* failed, no device is registered; when it returns GLFW_TRUE after
\* inotify_add_watch failed and opendir succeeded, the acceptable devices of
\* the directory are registered as far as the slots go; and while the
\* directory is not watched no platform query opens a device.
C12_InitFailsOnlyOnInotifyOrRegex ==
    /\ op.name = "init" =>
        /\ ~ret.ok <=> ("inotify_init1" \in op.failed \/ "regcomp" \in op.failed)
        /\ (ret.ok /\ "opendir" \in op.failed) =>
               (FreeJids(js) = Jids /\ calls = << >>)
        /\ (ret.ok /\ "inotify_add_watch" \in op.failed
                   /\ "opendir" \notin op.failed) =>
               /\ PresentDevices \subseteq Acceptable
               /\ Cardinality(PresentDevices) =
                      Min(Cardinality(Acceptable), GLFW_JOYSTICK_LAST + 1)
    /\ (AfterQuery /\ watch = -1) => calls = << >>

\* C12 witness: initialize returned GLFW_TRUE although inotify_add_watch
\* failed, and registered the two devices of the directory.
C12_Witness ==
    /\ op.name = "init"
    /\ ret.ok
    /\ op.failed = {"inotify_add_watch"}
    /\ Cardinality(PresentDevices) = 2

\* The device the slot of jid will hold after the step.
DeviceAfter(jid) == fdtab'[js'[jid].fd].dev

\* C13: _glfwPlatformGetJoystickAxes and _glfwPlatformGetJoystickButtons
\* leave the caller's count as it was when they return NULL, and otherwise
\* store in it the number of axes (buttons) the driver reported for the
\* device of the slot, which is also the length of the array returned; and
\* no step changes axisCount or buttonCount of a slot that stays present.
C13_Step ==
    /\ (op'.name \in {"GetJoystickAxes", "GetJoystickButtons"} /\ ~ret'.ok) =>
           outCount' = outCount
    /\ (op'.name = "GetJoystickAxes" /\ ret'.ok) =>
           /\ outCount' = DriverAxesOf(DeviceAfter(op'.jid))
           /\ outCount' = Len(ret'.value)
    /\ (op'.name = "GetJoystickButtons" /\ ret'.ok) =>
           /\ outCount' = DriverButtonsOf(DeviceAfter(op'.jid))
           /\ outCount' = Len(ret'.value)
    /\ \A jid \in Jids :
           (js[jid].present /\ js'[jid].present) =>
               /\ js'[jid].axisCount = js[jid].axisCount
               /\ js'[jid].buttonCount = js[jid].buttonCount

C13_CountsAsOpened == [][C13_Step]_vars

\* C13 witness: a query of an empty slot has returned NULL and the caller's
\* count still holds the two axes an earlier query of the other slot stored.
C13_Witness ==
    /\ op.name \in {"GetJoystickAxes", "GetJoystickButtons"}
    /\ ~ret.ok
    /\ outCount = 2
    /\ \E jid \in Jids : js[jid].present /\ js[jid].axisCount = 2

\* -1 <= f <= 1 for a fraction with a positive denominator.
InUnitRange(f) == -f.den <= f.num /\ f.num <= f.den

\* C14: every axis value a present slot stores lies in the closed range
\* [-1, 1], whatever signed 16-bit values the driver's records carried.
C14_AxesInUnitRange ==
    \A jid \in Jids :
        js[jid].present =>
            \A a \in DOMAIN js[jid].axes : InUnitRange(js[jid].axes[a])

====
